---- MODULE Spec2Model ----
(***************************************************************************)
(* Model of firehose_monitor.py: the startup that loads the resume cursor  *)
(* from CURSOR_FILE, the subscription, and on_message_handler, which is    *)
(* stepped one loop iteration at a time so that a crash or a signal can    *)
(* fall between any two of its steps.                                      *)
(*                                                                         *)
(* Python values are modelled as follows.  A str is a sequence of tokens   *)
(* (file contents: one character per token), a dict is a function whose    *)
(* DOMAIN is the set of keys present, a list is a sequence, and None or a  *)
(* missing value is a tagged record ([some |-> FALSE]).                    *)
(***************************************************************************)
EXTENDS Integers, Sequences, FiniteSets, TLC

VARIABLES
    pc,           \* position of main(): see PcValues
    cursor_file,  \* CURSOR_FILE on disk: NoFile or File(text)
    cursor,       \* main's local `cursor`: None or Some(int)
    params,       \* what the subscription was requested with: None or Some(int)
    commit,       \* the parsed commit on_message_handler is working on
    op_idx,       \* index into commit.ops of the next loop iteration
    stdout,       \* the events the current handler call has printed so far
    stderr,       \* "Error processing firehose event" lines of that call
    exit_status,  \* exit status of the process once pc = "exited"
    exit_cause,   \* why the process ended
    arrivals,     \* ghost: number of messages delivered to the handler
    raised,       \* the exception that left the handler call, "none" if none
    emit_log,     \* ghost: <<arrival, op index>> of every event printed so far
    owed,         \* ghost: matching operations delivered and not yet printed
    max_seen,     \* ghost: highest commit.seq delivered so far (0: none)
    car_decodes,  \* ghost: CAR.from_bytes calls made for the current commit
    start_file,   \* ghost: CURSOR_FILE as it was when main() last started
    restarts,     \* ghost: number of restarts after a crash
    last_msg,     \* ghost: what the latest message delivered parsed to
    lines,        \* resolve_memory: the lines read from the file
    new_lines,    \* resolve_memory: the lines to be written back
    line_i,       \* resolve_memory: the loop index i, counted from 1
    res_pc        \* resolve_memory: "idle", "scan" or "done"

vars == <<pc, cursor_file, cursor, params, commit, op_idx, stdout, stderr,
          exit_status, exit_cause, arrivals, raised, emit_log, owed,
          max_seen, car_decodes, start_file, restarts, last_msg,
          lines, new_lines, line_i, res_pc>>

resolve_vars == <<lines, new_lines, line_i, res_pc>>

(***************************************************************************)
(* Bounds.                                                                 *)
(***************************************************************************)
MinSeq == 9
MaxSeq == 10
MaxOps == 2
MaxMsgs == 2
MaxRestarts == 1
MaxLines == 5

(***************************************************************************)
(* Python values.                                                          *)
(***************************************************************************)
None == [some |-> FALSE]
Some(v) == [some |-> TRUE, val |-> v]

EmptyDict == [k \in {} |-> k]
EmptyStr == <<>>

\* d.get(k, default)
Get(d, k, default) == IF k \in DOMAIN d THEN d[k] ELSE default

\* d.get(k) == v, for a v that is not None
GetEquals(d, k, v) == k \in DOMAIN d /\ d[k] = v

\* sub in s
Contains(s, sub) ==
    \E i \in 0..(Len(s) - Len(sub)) : SubSeq(s, i + 1, i + Len(sub)) = sub

\* s.startswith(prefix)
StartsWith(s, prefix) ==
    Len(s) >= Len(prefix) /\ SubSeq(s, 1, Len(prefix)) = prefix

(***************************************************************************)
(* str(int) and int(str), on strings of one character per token.           *)
(***************************************************************************)
DigitChars == <<"0", "1", "2", "3", "4", "5", "6", "7", "8", "9">>
Whitespace == {" ", "\n"}

IsDigit(c) == \E d \in 1..10 : DigitChars[d] = c
DigitValue(c) == (CHOOSE d \in 1..10 : DigitChars[d] = c) - 1

RECURSIVE StrNat(_)
StrNat(n) ==
    IF n < 10 THEN <<DigitChars[n + 1]>>
    ELSE Append(StrNat(n \div 10), DigitChars[(n % 10) + 1])

\* str(n)
str(n) == IF n < 0 THEN <<"-">> \o StrNat(0 - n) ELSE StrNat(n)

RECURSIVE LStrip(_)
LStrip(s) ==
    IF s # <<>> /\ Head(s) \in Whitespace THEN LStrip(Tail(s)) ELSE s

RECURSIVE RStrip(_)
RStrip(s) ==
    IF s # <<>> /\ s[Len(s)] \in Whitespace
    THEN RStrip(SubSeq(s, 1, Len(s) - 1)) ELSE s

\* s.strip()
Strip(s) == RStrip(LStrip(s))

RECURSIVE DigitsValue(_)
DigitsValue(s) ==
    IF s = <<>> THEN 0
    ELSE 10 * DigitsValue(SubSeq(s, 1, Len(s) - 1)) + DigitValue(s[Len(s)])

AllDigits(s) == s # <<>> /\ \A i \in 1..Len(s) : IsDigit(s[i])

\* int(s): [ok |-> TRUE, val |-> n], or [ok |-> FALSE] for a ValueError
int(s) ==
    LET t == Strip(s)
        signed == t # <<>> /\ Head(t) \in {"-", "+"}
        body == IF signed THEN Tail(t) ELSE t
    IN IF ~AllDigits(body) THEN [ok |-> FALSE]
       ELSE IF signed /\ Head(t) = "-"
            THEN [ok |-> TRUE, val |-> 0 - DigitsValue(body)]
            ELSE [ok |-> TRUE, val |-> DigitsValue(body)]

(***************************************************************************)
(* CURSOR_FILE.                                                            *)
(***************************************************************************)
NoFile == [exists |-> FALSE]
File(text) == [exists |-> TRUE, text |-> text]

\* The contents CURSOR_FILE may have when the program first starts.
InitialFiles ==
    {NoFile} \cup
    { File(t) : t \in { <<>>, <<"0">>, <<"4", "2", "\n">>, <<"-", "7">>,
                        <<"4", "x">> } }

\* The value of `cursor` after the try block that reads CURSOR_FILE.
load_cursor(file) ==
    IF ~file.exists THEN None                   \* FileNotFoundError
    ELSE LET cursor_val == Strip(file.text)
         IN IF cursor_val = EmptyStr THEN None  \* `if cursor_val:` is false
            ELSE IF int(cursor_val).ok THEN Some(int(cursor_val).val)
            ELSE None                           \* ValueError

\* `Params(cursor=cursor) if cursor else None`
make_params(c) == IF c.some /\ c.val # 0 THEN Some(c.val) ELSE None

(***************************************************************************)
(* Identities, URIs and decoded post records.                              *)
(***************************************************************************)
bot_did == <<"did:", "bot">>
other_did == <<"did:", "eve">>

MentionType == "app.bsky.richtext.facet#mention"
LinkType == "app.bsky.richtext.facet#link"
RecordEmbedType == "app.bsky.embed.record"
ImagesEmbedType == "app.bsky.embed.images"

UriOfBot == <<"at://", "did:", "bot", "/app.bsky.feed.post/", "xyz">>
UriOfOther == <<"at://", "did:", "eve", "/app.bsky.feed.post/", "xyz">>
UriScrambled == <<"at://", "bot", "did:", "/app.bsky.feed.post/", "xyz">>
Uris == {UriOfBot, UriOfOther, UriScrambled}

\* A dict with the single key k.
Entry(k, v) == k :> v

\* The dicts {} and {k: v} for v in vals: the key k absent or present.
Optional(k, vals) == {EmptyDict} \cup { Entry(k, v) : v \in vals }

UriHolders(uris) == Optional("uri", uris)

ReplyValues == {EmptyDict} \cup { Entry("parent", p) : p \in UriHolders(Uris) }

Features ==
    { t @@ d : t \in Optional("$type", {MentionType, LinkType}),
               d \in Optional("did", {bot_did, other_did}) }

LinkToBot == Entry("$type", LinkType) @@ Entry("did", bot_did)
MentionOfOther == Entry("$type", MentionType) @@ Entry("did", other_did)

FacetsValues ==
    { <<>>, <<EmptyDict>>, <<Entry("features", <<>>)>> }
    \cup { <<Entry("features", <<f>>)>> : f \in Features }
    \cup { <<Entry("features", <<LinkToBot>>),
             Entry("features", <<MentionOfOther, f>>)>> :
           f \in { Entry("$type", MentionType) @@ Entry("did", bot_did),
                   Entry("$type", MentionType) } }

EmbedValues ==
    {EmptyDict} \cup
    { t @@ r : t \in Optional("$type", {RecordEmbedType, ImagesEmbedType}),
               r \in Optional("record", UriHolders({UriOfBot, UriOfOther})) }

TextValues == { <<"hi">>, <<"hi ", "did:", "bot">> }

\* A binary leaf (bytes); in the records modelled it sits under the key "blob".
BytesLeaf == [bytes |-> TRUE]

\* Every decoded post record the classifier is checked on.
AllRecords ==
    { r @@ f @@ e @@ t @@ b :
        r \in Optional("reply", ReplyValues),
        f \in Optional("facets", FacetsValues),
        e \in Optional("embed", EmbedValues),
        t \in Optional("text", TextValues),
        b \in Optional("blob", {BytesLeaf}) }

(***************************************************************************)
(* Classification: lines 90-127 of on_message_handler.                     *)
(***************************************************************************)
is_reply_to_bot(record_raw) ==
    LET reply == Get(record_raw, "reply", EmptyDict)
        parent_uri == Get(Get(reply, "parent", EmptyDict), "uri", EmptyStr)
    IN /\ "reply" \in DOMAIN record_raw
       /\ reply # EmptyDict                      \* `if reply:`
       /\ Contains(parent_uri, bot_did)

is_mention_of_bot(record_raw) ==
    LET facets == Get(record_raw, "facets", <<>>)
    IN \E i \in 1..Len(facets) :
         LET features == Get(facets[i], "features", <<>>)
         IN \E j \in 1..Len(features) :
              /\ GetEquals(features[j], "$type", MentionType)
              /\ GetEquals(features[j], "did", bot_did)

\* is_quote_of_bot with a missing $type read as the record embed type (mutant).
is_quote_of_bot_default_type(record_raw) ==
    LET embed == Get(record_raw, "embed", EmptyDict)
        record_uri == Get(Get(embed, "record", EmptyDict), "uri", EmptyStr)
    IN /\ Get(embed, "$type", RecordEmbedType) = RecordEmbedType
       /\ Contains(record_uri, bot_did)

is_quote_of_bot(record_raw) ==
    LET embed == Get(record_raw, "embed", EmptyDict)
        record_uri == Get(Get(embed, "record", EmptyDict), "uri", EmptyStr)
    IN /\ GetEquals(embed, "$type", RecordEmbedType)
       /\ Contains(record_uri, bot_did)

\* The condition of the `if` at line 120.
is_match(record_raw) ==
    is_reply_to_bot(record_raw) \/ is_mention_of_bot(record_raw)
        \/ is_quote_of_bot(record_raw)

\* reason_of with the reply test first (mutant).
reason_of_reply_first(record_raw) ==
    IF is_reply_to_bot(record_raw) THEN "reply"
    ELSE IF is_mention_of_bot(record_raw) THEN "mention"
    ELSE "quote"

\* The if/elif/else at lines 122-127.
reason_of(record_raw) ==
    IF is_mention_of_bot(record_raw) THEN "mention"
    ELSE IF is_quote_of_bot(record_raw) THEN "quote"
    ELSE "reply"

\* json.dumps raises TypeError on a bytes value anywhere in the event.
json_dumps_fails(record_raw) == "blob" \in DOMAIN record_raw

(***************************************************************************)
(* Messages of the subscription.                                           *)
(***************************************************************************)
CIDs == {"c1", "c2"}
Actions == {"create", "update", "delete"}

PostPrefix == <<"app.bsky.feed.post", "/">>
PostPath == <<"app.bsky.feed.post", "/", "abc">>
LikePath == <<"app.bsky.feed.like", "/", "abc">>
GatePath == <<"app.bsky.feed.post", "gate", "/", "abc">>
Paths == {PostPath, LikePath, GatePath}

Op(action, path, cid) == [action |-> action, path |-> path, cid |-> cid]

\* What car.blocks.get(cid) gives: None, a dict, or a block that is no dict.
Absent == [kind |-> "absent"]
Dict(r) == [kind |-> "dict", value |-> r]
NonDict == [kind |-> "other"]

\* commit.blocks: bytes CAR.from_bytes rejects, or a container of blocks.
BadCar == [ok |-> FALSE]
Car(c1, c2) == [ok |-> TRUE, blocks |-> [c \in CIDs |-> IF c = "c1" THEN c1 ELSE c2]]

RecMentionReply ==
    Entry("reply", Entry("parent", Entry("uri", UriOfBot)))
    @@ Entry("facets", <<Entry("features",
            <<Entry("$type", MentionType) @@ Entry("did", bot_did)>>)>>)
    @@ Entry("text", <<"hi">>)
RecReply == Entry("reply", Entry("parent", Entry("uri", UriOfBot)))
RecQuoteBlob ==
    Entry("embed", Entry("$type", RecordEmbedType)
                   @@ Entry("record", Entry("uri", UriOfBot)))
    @@ Entry("blob", BytesLeaf)
RecTextOnly == Entry("text", <<"hi ", "did:", "bot">>)

Containers ==
    { BadCar,
      Car(Dict(RecMentionReply), Dict(RecReply)),
      Car(Dict(RecQuoteBlob), NonDict),
      Car(Dict(RecTextOnly), Absent),
      Car(Absent, Dict(RecReply)) }

StreamOps ==
    { Op("create", PostPath, "c1"), Op("create", PostPath, "c2"),
      Op("delete", PostPath, "c1"), Op("create", GatePath, "c2") }

SeqsUpTo(S, n) == UNION { [1..k -> S] : k \in 0..n }

Repo == <<"did:", "alice">>

Commit(seq, ops, blocks) ==
    [kind |-> "commit", repo |-> Repo, seq |-> seq, ops |-> ops, blocks |-> blocks]

NoCommit == [kind |-> "none"]

\* The commits the subscription may deliver.
Commits ==
    { Commit(seq, ops, blocks) :
        seq \in MinSeq..MaxSeq, ops \in SeqsUpTo(StreamOps, MaxOps),
        blocks \in Containers }

(***************************************************************************)
(* One iteration of `for op in commit.ops`, lines 56-144.  The result is   *)
(* the event printed (if any), the number of error lines logged and the    *)
(* number of CAR.from_bytes calls made.                                    *)
(***************************************************************************)
Outcome(printed, errors, decodes) ==
    [printed |-> printed, errors |-> errors, decodes |-> decodes]

make_event(c, op, record_raw) ==
    [type |-> "firehose_mention",
     uri |-> <<"at://">> \o c.repo \o <<"/">> \o op.path,
     cid |-> op.cid,
     author |-> [did |-> c.repo, handle |-> None],
     record |-> record_raw,
     reason |-> reason_of(record_raw)]

classify_and_print(c, op, record_raw) ==
    IF ~is_match(record_raw) THEN Outcome(None, 0, 1)
    ELSE IF json_dumps_fails(record_raw) THEN Outcome(None, 1, 1)
    ELSE Outcome(Some(make_event(c, op, record_raw)), 0, 1)

\* on_record treating a missing block as a record (mutant): .get on None raises.
on_record_absent_raises(c, op, found) ==
    IF found.kind \in {"absent", "other"} THEN Outcome(None, 1, 1)
    ELSE IF found.value = EmptyDict THEN Outcome(None, 0, 1)
    ELSE classify_and_print(c, op, found.value)

\* Lines 85-144: what is done with record_raw = car.blocks.get(op.cid).
on_record(c, op, found) ==
    IF found.kind = "absent" THEN Outcome(None, 0, 1)
    ELSE IF found.kind = "other" THEN Outcome(None, 1, 1)  \* .get raises
    ELSE IF found.value = EmptyDict THEN Outcome(None, 0, 1)
    ELSE classify_and_print(c, op, found.value)

\* handle_op without the test of op.action (mutant).
handle_op_any_action(c, op) ==
    IF ~StartsWith(op.path, PostPrefix) THEN Outcome(None, 0, 0)
    ELSE IF ~c.blocks.ok THEN Outcome(None, 1, 1)
    ELSE on_record(c, op, c.blocks.blocks[op.cid])

handle_op(c, op) ==
    IF op.action # "create" THEN Outcome(None, 0, 0)
    ELSE IF ~StartsWith(op.path, PostPrefix) THEN Outcome(None, 0, 0)
    ELSE IF ~c.blocks.ok THEN Outcome(None, 1, 1)       \* CAR.from_bytes raises
    ELSE on_record(c, op, c.blocks.blocks[op.cid])

(***************************************************************************)
(* Ghost bookkeeping: the operations of a delivered commit that are owed   *)
(* an event, i.e. creates on the post collection whose record is in the    *)
(* container and satisfies one of the three detection rules.               *)
(***************************************************************************)
Range(f) == { f[x] : x \in DOMAIN f }

MentionRule(rec, target) ==
    /\ "facets" \in DOMAIN rec
    /\ \E facet \in Range(rec["facets"]) :
         /\ "features" \in DOMAIN facet
         /\ \E feature \in Range(facet["features"]) :
              /\ DOMAIN feature = {"$type", "did"}
              /\ feature["$type"] = MentionType
              /\ feature["did"] = target

UriRule(holder, target) ==
    /\ "uri" \in DOMAIN holder
    /\ \E i \in 1..Len(holder["uri"]) :
         /\ i + Len(target) - 1 <= Len(holder["uri"])
         /\ \A j \in 1..Len(target) : holder["uri"][i + j - 1] = target[j]

QuoteRule(rec, target) ==
    /\ "embed" \in DOMAIN rec
    /\ DOMAIN rec["embed"] = {"$type", "record"}
    /\ rec["embed"]["$type"] = RecordEmbedType
    /\ UriRule(rec["embed"]["record"], target)

ReplyRule(rec, target) ==
    /\ "reply" \in DOMAIN rec
    /\ "parent" \in DOMAIN rec["reply"]
    /\ UriRule(rec["reply"]["parent"], target)

\* The reason the precedence mention > quote > reply gives, "none" if no rule matches.
ExpectedReason(rec, target) ==
    CASE MentionRule(rec, target) -> "mention"
      [] ~MentionRule(rec, target) /\ QuoteRule(rec, target) -> "quote"
      [] ~MentionRule(rec, target) /\ ~QuoteRule(rec, target)
            /\ ReplyRule(rec, target) -> "reply"
      [] OTHER -> "none"

IsPostCreate(op) ==
    /\ op.action = "create"
    /\ Len(op.path) >= 2 /\ op.path[1] = "app.bsky.feed.post" /\ op.path[2] = "/"

ExpectedOps(c) ==
    { i \in 1..Len(c.ops) :
        /\ IsPostCreate(c.ops[i])
        /\ c.blocks.ok
        /\ c.blocks.blocks[c.ops[i].cid].kind = "dict"
        /\ ExpectedReason(c.blocks.blocks[c.ops[i].cid].value, bot_did) # "none" }

Max(a, b) == IF a >= b THEN a ELSE b

(***************************************************************************)
(* The state machine.                                                      *)
(***************************************************************************)
PcValues == {"init", "start", "loaded", "streaming", "handling",
             "callback_error", "exited", "crashed"}

Running == pc \notin {"exited", "crashed"}

\* resolve_memory.py is not running.
ResolveIdle ==
    /\ lines = <<>>
    /\ new_lines = <<>>
    /\ line_i = 0
    /\ res_pc = "idle"

Init ==
    /\ pc = "init"
    /\ cursor_file \in InitialFiles
    /\ cursor = None
    /\ params = None
    /\ commit = NoCommit
    /\ op_idx = 0
    /\ stdout = <<>>
    /\ stderr = 0
    /\ exit_status = -1
    /\ exit_cause = "running"
    /\ arrivals = 0
    /\ raised = "none"
    /\ emit_log = <<>>
    /\ owed = {}
    /\ max_seen = 0
    /\ car_decodes = 0
    /\ start_file = cursor_file
    /\ restarts = 0
    /\ last_msg = "none"
    /\ ResolveIdle

Exit(status, cause) ==
    /\ pc' = "exited"
    /\ exit_status' = status
    /\ exit_cause' = cause

\* Lines 18-29: credentials present and client.login succeeds.
Login ==
    /\ pc = "init"
    /\ pc' = "start"
    /\ UNCHANGED <<cursor_file, cursor, params, commit, op_idx, stdout, stderr,
                   exit_status, exit_cause, arrivals, raised, emit_log, owed,
                   max_seen, car_decodes, start_file, restarts, last_msg, resolve_vars>>

\* Lines 18-20 and 27-29: sys.exit(1).
LoginFails ==
    /\ pc = "init"
    /\ Exit(1, "startup")
    /\ UNCHANGED <<cursor_file, cursor, params, commit, op_idx, stdout, stderr,
                   arrivals, raised, emit_log, owed, max_seen, car_decodes, start_file,
                   restarts, last_msg, resolve_vars>>

\* Lines 31-42.
LoadCursor ==
    /\ pc = "start"
    /\ cursor' = load_cursor(cursor_file)
    /\ pc' = "loaded"
    /\ UNCHANGED <<cursor_file, params, commit, op_idx, stdout, stderr,
                   exit_status, exit_cause, arrivals, raised, emit_log, owed,
                   max_seen, car_decodes, start_file, restarts, last_msg, resolve_vars>>

\* Lines 44-45 and 146-148: the subscription is requested.
Subscribe ==
    /\ pc = "loaded"
    /\ params' = make_params(cursor)
    /\ pc' = "streaming"
    /\ UNCHANGED <<cursor_file, cursor, commit, op_idx, stdout, stderr,
                   exit_status, exit_cause, arrivals, raised, emit_log, owed,
                   max_seen, car_decodes, start_file, restarts, last_msg, resolve_vars>>

\* A handler call starts: nothing printed or logged by it yet.
HandlerEntered ==
    /\ pc = "streaming"
    /\ arrivals < MaxMsgs
    /\ arrivals' = arrivals + 1
    /\ stdout' = <<>>
    /\ stderr' = 0
    /\ car_decodes' = 0

\* ReceiveOther with CURSOR_FILE opened for writing before the type test (mutant).
ReceiveOtherTruncates ==
    /\ HandlerEntered
    /\ last_msg' = "other"
    /\ cursor_file' = File(EmptyStr)
    /\ UNCHANGED <<pc, cursor, params, commit, op_idx, exit_status,
                   exit_cause, raised, emit_log, owed, max_seen, start_file, restarts, resolve_vars>>

\* Lines 48-50: the message parses to something that is no Commit.
ReceiveOther ==
    /\ HandlerEntered
    /\ last_msg' = "other"
    /\ UNCHANGED <<pc, cursor_file, cursor, params, commit, op_idx, exit_status,
                   exit_cause, raised, emit_log, owed, max_seen, start_file, restarts, resolve_vars>>

\* Line 48: parse_subscribe_repos_message raises; nothing in the handler catches it.
ReceiveUnparsable ==
    /\ HandlerEntered
    /\ last_msg' = "unparsable"
    /\ pc' = "callback_error"
    /\ raised' = "parse"
    /\ UNCHANGED <<cursor_file, cursor, params, commit, op_idx, exit_status,
                   exit_cause, emit_log, owed, max_seen, start_file, restarts, resolve_vars>>

WriteOutcomes == {"ok", "open_fails", "write_fails"}

\* write_cursor that leaves the file as it was (mutant).
write_cursor_skipped(file, seq, outcome) == file

\* Lines 53-54: the file after `with open(CURSOR_FILE, 'w') as f: f.write(...)`.
\* open(..., 'w') truncates before anything is written.
write_cursor(file, seq, outcome) ==
    CASE outcome = "ok" -> File(str(seq))
      [] outcome = "open_fails" -> file
      [] outcome = "write_fails" -> File(EmptyStr)

\* Lines 48-54: a Commit arrives and its seq is written to CURSOR_FILE.  An
\* OSError from open or write is not caught by the handler.
ReceiveCommit ==
    \E c \in Commits, outcome \in WriteOutcomes :
        /\ HandlerEntered
        /\ last_msg' = "commit"
        /\ cursor_file' = write_cursor(cursor_file, c.seq, outcome)
        /\ IF outcome = "ok"
           THEN pc' = "handling" /\ commit' = c /\ op_idx' = 1
                /\ UNCHANGED raised
           ELSE pc' = "callback_error" /\ raised' = "OSError"
                /\ UNCHANGED <<commit, op_idx>>
        /\ max_seen' = Max(max_seen, c.seq)
        /\ owed' = owed \cup { <<c.seq, arrivals + 1, i>> : i \in ExpectedOps(c) }
        /\ UNCHANGED <<cursor, params, exit_status, exit_cause, emit_log,
                       start_file, restarts, resolve_vars>>

\* op_at visiting the operations last to first (mutant).
op_at_reversed(c, k) == Len(c.ops) + 1 - k

\* `for op in commit.ops`: the index of the operation visited k-th.
op_at(c, k) == k

\* Lines 56-144 for one operation.
ProcessOp ==
    /\ pc = "handling"
    /\ op_idx <= Len(commit.ops)
    /\ LET i == op_at(commit, op_idx)
           o == handle_op(commit, commit.ops[i])
       IN /\ stdout' = IF o.printed.some THEN Append(stdout, o.printed.val)
                       ELSE stdout
          /\ stderr' = stderr + o.errors
          /\ car_decodes' = car_decodes + o.decodes
          /\ emit_log' = IF o.printed.some THEN Append(emit_log, <<arrivals, i>>)
                         ELSE emit_log
          /\ owed' = IF o.printed.some THEN owed \ {<<commit.seq, arrivals, i>>}
                     ELSE owed
    /\ op_idx' = op_idx + 1
    /\ UNCHANGED <<pc, cursor_file, cursor, params, commit, exit_status,
                   exit_cause, arrivals, raised, max_seen, start_file, restarts, last_msg, resolve_vars>>

\* The loop is over and the handler returns to the subscription.
HandlerReturn ==
    /\ pc = "handling"
    /\ op_idx > Len(commit.ops)
    /\ pc' = "streaming"
    /\ commit' = NoCommit
    /\ op_idx' = 0
    /\ stdout' = <<>>
    /\ stderr' = 0
    /\ car_decodes' = 0
    /\ UNCHANGED <<cursor_file, cursor, params, exit_status, exit_cause,
                   arrivals, raised, emit_log, owed, max_seen, start_file, restarts, last_msg, resolve_vars>>

\* Line 148: the exception that left the handler is dealt with inside
\* firehose.start, which goes on to the next message.
CallbackErrorIgnored ==
    /\ pc = "callback_error"
    /\ pc' = "streaming"
    /\ raised' = "none"
    /\ UNCHANGED <<cursor_file, cursor, params, commit, op_idx, stdout, stderr,
                   exit_status, exit_cause, arrivals, emit_log, owed,
                   max_seen, car_decodes, start_file, restarts, last_msg, resolve_vars>>

\* Lines 148-150: the exception leaves firehose.start, is printed, and main
\* returns: the process ends with status 0.
CallbackErrorRaised ==
    /\ pc = "callback_error"
    /\ Exit(0, "handler_error")
    /\ UNCHANGED <<cursor_file, cursor, params, commit, op_idx, stdout, stderr,
                   arrivals, raised, emit_log, owed, max_seen, car_decodes, start_file,
                   restarts, last_msg, resolve_vars>>

\* Lines 148-150: a subscription-level error leaves firehose.start, is
\* printed, and main returns: the process ends with status 0.
StreamError ==
    /\ pc = "streaming"
    /\ Exit(0, "stream_error")
    /\ UNCHANGED <<cursor_file, cursor, params, commit, op_idx, stdout, stderr,
                   arrivals, raised, emit_log, owed, max_seen, car_decodes, start_file,
                   restarts, last_msg, resolve_vars>>

\* A termination signal: main installs no handler, so the process ends where
\* it stands, with nothing run afterwards.
Signal ==
    /\ Running
    /\ Exit(143, "signal")
    /\ UNCHANGED <<cursor_file, cursor, params, commit, op_idx, stdout, stderr,
                   arrivals, raised, emit_log, owed, max_seen, car_decodes, start_file,
                   restarts, last_msg, resolve_vars>>

\* An unclean crash (power loss, kill -9) at any point.
Crash ==
    /\ Running
    /\ pc' = "crashed"
    /\ UNCHANGED <<cursor_file, cursor, params, commit, op_idx, stdout, stderr,
                   exit_status, exit_cause, arrivals, raised, emit_log, owed,
                   max_seen, car_decodes, start_file, restarts, last_msg, resolve_vars>>

\* The program is started again after a crash: main() runs from the top.
Restart ==
    /\ pc = "crashed"
    /\ restarts < MaxRestarts
    /\ restarts' = restarts + 1
    /\ pc' = "init"
    /\ cursor' = None
    /\ params' = None
    /\ commit' = NoCommit
    /\ op_idx' = 0
    /\ stdout' = <<>>
    /\ stderr' = 0
    /\ car_decodes' = 0
    /\ start_file' = cursor_file
    /\ raised' = "none"
    /\ UNCHANGED <<cursor_file, exit_status, exit_cause, arrivals, emit_log,
                   owed, max_seen, last_msg, resolve_vars>>

Next ==
    \/ Login
    \/ LoginFails
    \/ LoadCursor
    \/ Subscribe
    \/ ReceiveOther
    \/ ReceiveUnparsable
    \/ ReceiveCommit
    \/ ProcessOp
    \/ HandlerReturn
    \/ CallbackErrorIgnored
    \/ CallbackErrorRaised
    \/ StreamError
    \/ Signal
    \/ Crash
    \/ Restart

Spec == Init /\ [][Next]_vars

(***************************************************************************)
(* The classifier on every record of AllRecords: the handler has just      *)
(* received, as the first message of a run that found no cursor file, a    *)
(* commit with one create on the post collection whose record is r.        *)
(***************************************************************************)
ClassifyCommits ==
    { Commit(MinSeq, <<Op("create", PostPath, "c1")>>, Car(Dict(r), Absent)) :
        r \in AllRecords }

InitClassify ==
    /\ pc = "handling"
    /\ commit \in ClassifyCommits
    /\ op_idx = 1
    /\ cursor_file = File(str(MinSeq))
    /\ cursor = None
    /\ params = None
    /\ stdout = <<>>
    /\ stderr = 0
    /\ exit_status = -1
    /\ exit_cause = "running"
    /\ arrivals = 1
    /\ raised = "none"
    /\ emit_log = <<>>
    /\ owed = { <<MinSeq, 1, i>> : i \in ExpectedOps(commit) }
    /\ max_seen = MinSeq
    /\ car_decodes = 0
    /\ start_file = NoFile
    /\ restarts = 0
    /\ last_msg = "commit"
    /\ ResolveIdle

NextClassify == ProcessOp \/ HandlerReturn

SpecClassify == InitClassify /\ [][NextClassify]_vars

(***************************************************************************)
(* The handler on commits with every kind of operation: it has just        *)
(* received, as the first message of a run that found no cursor file, a    *)
(* commit whose operations are drawn from all actions, paths and cids.     *)
(***************************************************************************)
Ops == { Op(a, p, c) : a \in Actions, p \in Paths, c \in CIDs }

OpsCommits ==
    { Commit(MinSeq, ops, blocks) :
        ops \in SeqsUpTo(Ops, MaxOps), blocks \in Containers }

InitOps ==
    /\ pc = "handling"
    /\ commit \in OpsCommits
    /\ op_idx = 1
    /\ cursor_file = File(str(MinSeq))
    /\ cursor = None
    /\ params = None
    /\ stdout = <<>>
    /\ stderr = 0
    /\ exit_status = -1
    /\ exit_cause = "running"
    /\ arrivals = 1
    /\ raised = "none"
    /\ emit_log = <<>>
    /\ owed = { <<MinSeq, 1, i>> : i \in ExpectedOps(commit) }
    /\ max_seen = MinSeq
    /\ car_decodes = 0
    /\ start_file = NoFile
    /\ restarts = 0
    /\ last_msg = "commit"
    /\ ResolveIdle

SpecOps == InitOps /\ [][NextClassify]_vars

(***************************************************************************)
(* resolve_memory.py: the loop of lines 11-33 over the lines read from the *)
(* file, and the write of lines 35-36.  A line is a sequence of tokens.    *)
(***************************************************************************)
HeadMarker == <<"<<<<<<<", " HEAD">>
SeparatorMarker == <<"=======">>
EndMarker == <<">>>>>>>">>

HeadLine == <<"<<<<<<<", " HEAD", "\n">>
SeparatorLine == <<"=======", "\n">>
EndLine == <<">>>>>>>", " origin/main", "\n">>
TextLine == <<"a", "\n">>
OursLine == <<"<<<<<<<", " ours", "\n">>

InputLines == {HeadLine, SeparatorLine, EndLine, TextLine, OursLine}

\* Lines 18-23: `for j in range(i + 1, len(lines))`, from j on, with the mid
\* found so far; indices count from 0 as in the source, -1 is "not found".
RECURSIVE scan(_, _, _)
scan(ls, j, mid) ==
    IF j >= Len(ls) THEN [mid |-> mid, end |-> -1]
    ELSE LET m == IF StartsWith(ls[j + 1], SeparatorMarker) THEN j ELSE mid
         IN IF StartsWith(ls[j + 1], EndMarker) THEN [mid |-> m, end |-> j]
            ELSE scan(ls, j + 1, m)

\* scan that keeps the first separator it meets (mutant).
RECURSIVE scan_first(_, _, _)
scan_first(ls, j, mid) ==
    IF j >= Len(ls) THEN [mid |-> mid, end |-> -1]
    ELSE LET m == IF StartsWith(ls[j + 1], SeparatorMarker) /\ mid = -1
                  THEN j ELSE mid
         IN IF StartsWith(ls[j + 1], EndMarker) THEN [mid |-> m, end |-> j]
            ELSE scan_first(ls, j + 1, m)

\* find_markers with the first separator as mid (mutant).
find_markers_first(ls, i) == scan_first(ls, i + 1, -1)

\* Lines 16-23: mid and end for the head line at index i.
find_markers(ls, i) == scan(ls, i + 1, -1)

\* Lines 15 and 25: the line at i opens a block that has both markers.
is_block(ls, i) ==
    /\ StartsWith(ls[i + 1], HeadMarker)
    /\ find_markers(ls, i).mid # -1
    /\ find_markers(ls, i).end # -1

\* Lines 25-30: the origin side lines[mid+1:end] is kept, the scan resumes after end.
ResolveBlock ==
    /\ res_pc = "scan"
    /\ line_i < Len(lines)
    /\ is_block(lines, line_i)
    /\ LET found == find_markers(lines, line_i)
       IN /\ new_lines' = new_lines \o SubSeq(lines, found.mid + 2, found.end)
          /\ line_i' = found.end + 1
    /\ UNCHANGED <<lines, res_pc>>
    /\ UNCHANGED <<pc, cursor_file, cursor, params, commit, op_idx, stdout, stderr,
                   exit_status, exit_cause, arrivals, raised, emit_log, owed,
                   max_seen, car_decodes, start_file, restarts, last_msg>>

\* Lines 32-33: any other line is kept.
ResolveKeep ==
    /\ res_pc = "scan"
    /\ line_i < Len(lines)
    /\ ~is_block(lines, line_i)
    /\ new_lines' = Append(new_lines, lines[line_i + 1])
    /\ line_i' = line_i + 1
    /\ UNCHANGED <<lines, res_pc>>
    /\ UNCHANGED <<pc, cursor_file, cursor, params, commit, op_idx, stdout, stderr,
                   exit_status, exit_cause, arrivals, raised, emit_log, owed,
                   max_seen, car_decodes, start_file, restarts, last_msg>>

\* Lines 13 and 35-36: the loop is left and new_lines is written to the file.
ResolveWrite ==
    /\ res_pc = "scan"
    /\ line_i >= Len(lines)
    /\ res_pc' = "done"
    /\ UNCHANGED <<lines, new_lines, line_i>>
    /\ UNCHANGED <<pc, cursor_file, cursor, params, commit, op_idx, stdout, stderr,
                   exit_status, exit_cause, arrivals, raised, emit_log, owed,
                   max_seen, car_decodes, start_file, restarts, last_msg>>

\* Lines 9-12: the lines have been read, new_lines = [] and i = 0.  The
\* firehose monitor is a separate program and is not running.
InitResolve ==
    /\ lines \in SeqsUpTo(InputLines, MaxLines)
    /\ new_lines = <<>>
    /\ line_i = 0
    /\ res_pc = "scan"
    /\ pc = "init"
    /\ cursor_file = NoFile
    /\ cursor = None
    /\ params = None
    /\ commit = NoCommit
    /\ op_idx = 0
    /\ stdout = <<>>
    /\ stderr = 0
    /\ exit_status = -1
    /\ exit_cause = "running"
    /\ arrivals = 0
    /\ raised = "none"
    /\ emit_log = <<>>
    /\ owed = {}
    /\ max_seen = 0
    /\ car_decodes = 0
    /\ start_file = NoFile
    /\ restarts = 0
    /\ last_msg = "none"

NextResolve == ResolveBlock \/ ResolveKeep \/ ResolveWrite

\* The script is a sequential program: while a step is possible one is taken.
SpecResolve == InitResolve /\ [][NextResolve]_vars /\ WF_vars(NextResolve)

(***************************************************************************)
(* Claims.                                                                 *)
(***************************************************************************)
\* The record the operation being handled (or just handled) refers to.
CurrentRecords ==
    IF commit.kind = "commit" /\ commit.blocks.ok
    THEN { commit.blocks.blocks[c].value :
             c \in { d \in CIDs : commit.blocks.blocks[d].kind = "dict" } }
    ELSE {}

C2_CursorIsMaxSeen ==
    pc = "handling" => cursor_file = File(str(max_seen))

\* The checkpoint a file holds: its decimal value when the text, whitespace
\* aside, is a non-negative decimal number, absent otherwise.
CheckpointOf(file) ==
    IF file.exists /\ AllDigits(Strip(file.text))
    THEN Some(DigitsValue(Strip(file.text)))
    ELSE None

\* C3: at a crash, every event still owed belongs to a commit whose sequence
\* number is greater than the checkpoint the restart will resume from.
C3_NothingLostAtCrash ==
    pc = "crashed" =>
        \A e \in owed :
            CheckpointOf(cursor_file).some => e[1] > CheckpointOf(cursor_file).val

LexLess(a, b) == a[1] < b[1] \/ (a[1] = b[1] /\ a[2] < b[2])

\* C4: events are printed in the order their commits arrived and, within a
\* commit, in the order of its operations; every event printed belongs to a
\* commit that has arrived, and while a commit is being handled only its own
\* events are printed.
C4_EmitOrder ==
    /\ \A j, k \in 1..Len(emit_log) :
         j < k => LexLess(emit_log[j], emit_log[k])
    /\ \A k \in 1..Len(emit_log) : emit_log[k][1] <= arrivals
    /\ \A k \in 1..Len(stdout) :
         emit_log[Len(emit_log) - Len(stdout) + k][1] = arrivals

\* C4 witness: two events of the first commit and one of the second printed.
C4_Witness ==
    /\ Len(emit_log) >= 3
    /\ emit_log[1] = <<1, 1>>
    /\ emit_log[2] = <<1, 2>>
    /\ emit_log[3][1] = 2

Subscribed == pc \in {"streaming", "handling", "callback_error"}

\* C5: the subscription is requested with the checkpoint the file held at
\* startup, and without a cursor only when the file held no checkpoint.
C5_ResumesFromCheckpoint ==
    Subscribed =>
        /\ CheckpointOf(start_file).some => params = CheckpointOf(start_file)
        /\ params = None => ~CheckpointOf(start_file).some

\* C6: loading yields the stored value for a valid non-negative integer and
\* absent in every other case (no file, empty, negative, non-numeric).
C6_LoadYieldsCheckpointOrAbsent ==
    pc \in {"loaded", "streaming", "handling", "callback_error"} =>
        cursor = CheckpointOf(start_file)

\* C7: no per-commit failure leaves the message handler: a message that fails
\* to parse is caught there and the consumer stays in Streaming.
C7_ParseFailureIsCaught ==
    raised # "parse" /\ (pc = "callback_error" => raised = "OSError")

\* C8: a failure to write the checkpoint file does not leave the message
\* handler, and the operations of that envelope are still handled.
C8_WriteFailureIsSoft ==
    raised # "OSError"

\* C9: a process that ended on a subscription-level error ended with a
\* non-zero status.
C9_StreamErrorExitsNonZero ==
    (pc = "exited" /\ exit_cause = "stream_error") => exit_status # 0

\* The events of the commit in flight that are owed and not yet printed.
InFlightOwed ==
    IF commit.kind = "commit"
    THEN { e \in owed : e[1] = commit.seq /\ e[2] = arrivals }
    ELSE {}

\* C10: when the process has ended on a shutdown signal, no event of a commit
\* whose sequence number the checkpoint holds was left in flight and unprinted.
C10_ShutdownCompletesInFlight ==
    (pc = "exited" /\ exit_cause = "signal") =>
        \A e \in InFlightOwed : e[3] < op_idx

\* C11: handling a message never changes CURSOR_FILE: the cursor reaches the
\* file only by a periodic flush or at shutdown.
C11_HandlerNeverWrites ==
    [][arrivals' # arrivals => cursor_file' = cursor_file]_vars

\* C12: the block container of a commit is decoded at most once, however
\* many operations the commit has.
C12_DecodedAtMostOnce ==
    car_decodes <= 1

\* The operation index of the k-th event the current handler call printed.
PrintedOp(k) == emit_log[Len(emit_log) - Len(stdout) + k][2]

PrintedOps == { PrintedOp(k) : k \in 1..Len(stdout) }

LoopDone == pc = "handling" /\ op_idx > Len(commit.ops)

RecordOf(c, k) == c.blocks.blocks[c.ops[k].cid]

\* The operations owed an event whose record has no binary leaf.
Printable(c) ==
    { k \in ExpectedOps(c) : "blob" \notin DOMAIN RecordOf(c, k).value }

\* C13: every event printed comes from a create on the post collection and
\* carries that operation's path, and an update, a delete or a create on
\* another collection does not stop the later operations from being handled:
\* when the loop is over every operation owed an event (binary leaves aside)
\* has had it printed.
C13_OnlyPostCreatesEmit ==
    /\ \A k \in 1..Len(stdout) :
         /\ IsPostCreate(commit.ops[PrintedOp(k)])
         /\ stdout[k].uri =
              <<"at://">> \o commit.repo \o <<"/">> \o commit.ops[PrintedOp(k)].path
    /\ LoopDone => Printable(commit) \subseteq PrintedOps

\* C13 witness: an update or delete of a post whose record matches came
\* first and printed nothing; the create after it printed its event.
C13_Witness ==
    /\ LoopDone
    /\ Len(commit.ops) = 2
    /\ commit.ops[1].action \in {"update", "delete"}
    /\ commit.ops[1].path = PostPath
    /\ commit.blocks.ok
    /\ RecordOf(commit, 1).kind = "dict"
    /\ ExpectedReason(RecordOf(commit, 1).value, bot_did) # "none"
    /\ PrintedOps = {2}

\* The creates on the post collection whose content id is not in the container.
AbsentOps(c) ==
    { k \in 1..Len(c.ops) :
        IsPostCreate(c.ops[k]) /\ c.blocks.ok /\ RecordOf(c, k).kind = "absent" }

\* The operations handled so far that may log an error: creates on the post
\* collection whose container or record is there but bad.
MayLog(c, n) ==
    { k \in 1..n :
        /\ IsPostCreate(c.ops[k])
        /\ (c.blocks.ok => RecordOf(c, k).kind # "absent") }

\* C14: a create whose content id is absent from the container prints no
\* event and logs no error, no exception leaves the handler, the cursor file
\* holds the envelope's sequence number, and the remaining operations are
\* still handled.
C14_AbsentRecordIsSkipped ==
    pc = "handling" =>
        /\ raised = "none"
        /\ cursor_file = File(str(commit.seq))
        /\ AbsentOps(commit) \cap PrintedOps = {}
        /\ stderr <= Cardinality(MayLog(commit, op_idx - 1))
        /\ op_idx > Len(commit.ops) => Printable(commit) \subseteq PrintedOps

\* C14 witness: the first create refers to an absent content id, the second
\* printed its event, and nothing was logged.
C14_Witness ==
    /\ LoopDone
    /\ Len(commit.ops) = 2
    /\ 1 \in AbsentOps(commit)
    /\ PrintedOps = {2}
    /\ stderr = 0

\* A field the reply rule reads is missing.
ReplyIncomplete(rec) ==
    \/ "reply" \notin DOMAIN rec
    \/ "parent" \notin DOMAIN rec["reply"]
    \/ "uri" \notin DOMAIN rec["reply"]["parent"]

\* No feature of the record has both of the fields the mention rule reads.
MentionIncomplete(rec) ==
    \/ "facets" \notin DOMAIN rec
    \/ \A facet \in Range(rec["facets"]) :
         \/ "features" \notin DOMAIN facet
         \/ \A feature \in Range(facet["features"]) :
              DOMAIN feature # {"$type", "did"}

\* A field the quote rule reads is missing.
QuoteIncomplete(rec) ==
    \/ "embed" \notin DOMAIN rec
    \/ "$type" \notin DOMAIN rec["embed"]
    \/ "record" \notin DOMAIN rec["embed"]
    \/ "uri" \notin DOMAIN rec["embed"]["record"]

PrintedReasons == { stdout[k].reason : k \in 1..Len(stdout) }

\* C15: once a record has been classified, a rule that reads a missing field
\* has not matched (its reason is not printed), the other rules have decided
\* the outcome (the reason printed is the one the complete rules give, nothing
\* when none matches), a record with none of reply, facets and embed printed
\* nothing, and nothing was logged: no error was raised.
C15_AbsenceSafe ==
    LoopDone =>
        \A r \in CurrentRecords :
            /\ ReplyIncomplete(r) => "reply" \notin PrintedReasons
            /\ MentionIncomplete(r) => "mention" \notin PrintedReasons
            /\ QuoteIncomplete(r) => "quote" \notin PrintedReasons
            /\ DOMAIN r \cap {"reply", "facets", "embed"} = {} => stdout = <<>>
            /\ "blob" \notin DOMAIN r =>
                 /\ stderr = 0
                 /\ PrintedReasons =
                      { ExpectedReason(r, bot_did) } \ {"none"}

\* C15 witness: the embed has no $type and a facet has no features, the reply
\* rule matched, and the event was printed with reason "reply" and no error.
C15_Witness ==
    /\ LoopDone
    /\ stderr = 0
    /\ PrintedReasons = {"reply"}
    /\ \E r \in CurrentRecords :
         /\ "embed" \in DOMAIN r
         /\ DOMAIN r["embed"] = {"record"}
         /\ "facets" \in DOMAIN r
         /\ \E facet \in Range(r["facets"]) : "features" \notin DOMAIN facet

\* C16: when the loop is over, every operation owed an event whose record
\* holds a binary leaf has had exactly one line printed for it.
C16_BinaryLeafStillEmitted ==
    LoopDone =>
        \A i \in ExpectedOps(commit) \ Printable(commit) :
            Cardinality({ k \in 1..Len(stdout) : PrintedOp(k) = i }) = 1

\* C17: when the loop is over, a commit from repo R with k creates on the post
\* collection whose record is present and matches has printed exactly k
\* events, one per such operation in order, each of type "firehose_mention"
\* with uri at://R/<path>, the operation's content id, author R and the
\* reason the rules give for the record.
C17_OneEventPerMatch ==
    LoopDone =>
        /\ Len(stdout) = Cardinality(ExpectedOps(commit))
        /\ PrintedOps = ExpectedOps(commit)
        /\ \A k \in 1..Len(stdout) :
             LET op == commit.ops[PrintedOp(k)]
             IN /\ stdout[k].type = "firehose_mention"
                /\ stdout[k].uri = <<"at://">> \o commit.repo \o <<"/">> \o op.path
                /\ stdout[k].cid = op.cid
                /\ stdout[k].author.did = commit.repo
                /\ stdout[k].reason =
                     ExpectedReason(RecordOf(commit, PrintedOp(k)).value, bot_did)

\* C18: the arrival of a message that is no Commit changes neither CURSOR_FILE
\* nor what has been printed, and leaves the consumer where it was: no event
\* is printed, none becomes owed, no commit is taken up.
C18_NonCommitIsNoOp ==
    [][(arrivals' # arrivals /\ last_msg' = "other") =>
          /\ cursor_file' = cursor_file
          /\ emit_log' = emit_log
          /\ stdout' = <<>>
          /\ owed' = owed
          /\ commit' = commit
          /\ pc' = pc]_vars

\* C18 witness: the second message of a run was no Commit, after a first
\* that was a commit and whose seq the file still holds.
C18_Witness ==
    /\ last_msg = "other"
    /\ arrivals = 2
    /\ pc = "streaming"
    /\ cursor_file = File(str(MaxSeq))
    /\ cursor_file # start_file

\* C19: whenever an event is printed, CURSOR_FILE already holds the seq of
\* the commit the event belongs to, and printing leaves the file alone.
C19_CheckpointBeforeEmit ==
    [][emit_log' # emit_log =>
          /\ commit.kind = "commit"
          /\ cursor_file = File(str(commit.seq))
          /\ cursor_file' = cursor_file]_vars

\* C19 witness: an event of a commit has been printed and the file, which
\* held something else when the process started, holds the commit's seq.
C19_Witness ==
    /\ pc = "handling"
    /\ Len(stdout) > 0
    /\ cursor_file = File(str(commit.seq))
    /\ cursor_file # start_file

IsHead(l) == Len(l) >= 2 /\ l[1] = "<<<<<<<" /\ l[2] = " HEAD"
IsSeparator(l) == Len(l) >= 1 /\ l[1] = "======="
IsEnd(l) == Len(l) >= 1 /\ l[1] = ">>>>>>>"

Least(S) == CHOOSE x \in S : \A y \in S : x <= y
Greatest(S) == CHOOSE x \in S : \A y \in S : x >= y

\* The end marker of the block the line at p opens: the next end marker after
\* p, if a separator lies between; 0 if the line opens no block.
BlockEnd(ls, p) ==
    LET ends == { e \in (p + 1)..Len(ls) : IsEnd(ls[e]) }
    IN IF IsHead(ls[p]) /\ ends # {}
           /\ \E j \in (p + 1)..Least(ends) : IsSeparator(ls[j])
       THEN Least(ends) ELSE 0

Separators(ls, p) == { j \in (p + 1)..BlockEnd(ls, p) : IsSeparator(ls[j]) }

\* What the lines from p on become: every block replaced by the lines after
\* its first (first = TRUE) or last separator and before its end marker,
\* every other line kept.
RECURSIVE Resolved(_, _, _)
Resolved(ls, p, first) ==
    IF p > Len(ls) THEN <<>>
    ELSE IF BlockEnd(ls, p) = 0 THEN <<ls[p]>> \o Resolved(ls, p + 1, first)
    ELSE LET m == IF first THEN Least(Separators(ls, p))
                  ELSE Greatest(Separators(ls, p))
         IN SubSeq(ls, m + 1, BlockEnd(ls, p) - 1)
                \o Resolved(ls, BlockEnd(ls, p) + 1, first)

\* C20: what resolve_memory writes is the input with every conflict block
\* replaced by the lines between the block's first separator and its end
\* marker, every other line kept in order and a head line that opens no
\* block left in place.
C20_OriginSideFromFirstSeparator ==
    res_pc = "done" => new_lines = Resolved(lines, 1, TRUE)

\* C20 (amended): what resolve_memory writes is the input with every conflict
\* block replaced by the lines between the block's last separator before the
\* end marker and that end marker, every other line kept in order and a head
\* line that opens no block left in place; and the scan always terminates.
C20_OriginSideFromLastSeparator ==
    /\ [](res_pc = "done" => new_lines = Resolved(lines, 1, FALSE))
    /\ <>(res_pc = "done")

\* C20 witness: the scan has ended on an input with a kept line followed by
\* a block that has two separators; only the kept line was written.
C20_Witness ==
    /\ res_pc = "done"
    /\ Len(lines) >= 2 /\ ~IsHead(lines[1])
    /\ BlockEnd(lines, 2) # 0
    /\ Cardinality(Separators(lines, 2)) = 2
    /\ new_lines # Resolved(lines, 1, TRUE)
    /\ new_lines = <<lines[1]>>

\* The scan moves forward at every step and stays within the input.
ResolveAdvances ==
    [][line_i' # line_i => (line_i' > line_i /\ line_i' <= Len(lines))]_vars

====
